---- MODULE Spec2Model ----
(***************************************************************************)
(* WebPageLinker.c: a directed graph of named pages kept in a singly       *)
(* linked list (graphHead), each page with a linked list of outgoing       *)
(* links, built and queried by the command lines @addPages, @addLinks and  *)
(* @isConnected that main() reads one at a time.                           *)
(*                                                                         *)
(* A page pointer is modelled as the page's position in the list (the list *)
(* is append-only, so a position never changes its page); NULL is 0.       *)
(* A link pointer inside a page's edge list is the position of the link in *)
(* that list; NULL is any position past the end.                           *)
(***************************************************************************)
EXTENDS Naturals, Sequences, FiniteSets, TLC

\* ---------------------------------------------------------------- bounds
MaxArgs  == 3      \* arguments on one command line
MaxEdges == 2      \* links in the whole graph
MaxErr   == 2      \* cap on the error counter
MaxOut   == 2      \* cap on the number of printed lines
MaxLine  == 3      \* characters of a line between the verb's space and the line terminator

\* page names: two for the lines of Spec (a name is in the store or not, once
\* or twice on a line), a third for the queries of SpecDfs (a path of two links)
LineNames == {"a", "b"}
Names     == LineNames \cup {"c"}

Verbs == {"@addPages", "@addLinks", "@isConnected"}

\* first words of a line: the three verbs and one word that is none of them
FirstWords == Verbs \cup {"@bogus"}


\* pageLinks: the words after the first, in order
ArgListsOver(S) == UNION {[1..n -> S] : n \in 0..MaxArgs}
LineArgLists    == ArgListsOver(LineNames)
ArgLists        == ArgListsOver(Names)

\* the words after a first word that is no verb (never read: line 437 leaves the loop)
IgnoredArgLists == {args \in LineArgLists : Len(args) <= 1}

NULL == 0

VARIABLES
    graphHead,   \* the page list: sequence of [name, edges, visited]
    errSeen,     \* main's error counter
    out,         \* stdout: the sequence of printed 0/1 lines
    pc,          \* "main": between two lines; "dfs": inside dfs; "print": dfs returned
    nodeOne,     \* printConnection's nodeOne (NULL outside a query)
    nodeTwo,     \* printConnection's nodeTwo, dfs's toPage
    stack,       \* the active dfs frames [page, curLink], outermost first
    res,         \* the value the outermost dfs returned (read at "print" only)
    marks,       \* history: how often line 228 marked each page in this query
    memo,        \* history: at most one earlier query on the present graph, with its result
    last,        \* history: the line handled last and what its calls returned
    line         \* history: the characters getline read for that line (kept by SpecTok only)

vars == <<graphHead, errSeen, out, pc, nodeOne, nodeTwo, stack, res, marks, memo, last, line>>

hist == <<memo, last, line>>

NoLine == [word |-> "", args |-> <<>>, calls |-> <<>>]

\* ---------------------------------------------------------------- the graph store

Pages(g) == 1..Len(g)

NameSet(g) == {g[i].name : i \in Pages(g)}

TotalEdges(g) ==
    LET RECURSIVE Sum(_)
        Sum(i) == IF i = 0 THEN 0 ELSE Len(g[i].edges) + Sum(i - 1)
    IN Sum(Len(g))

\* main, lines 461-465: the node built for one @addPages argument
NewPage(pageWord) == [name |-> pageWord, edges |-> <<>>, visited |-> 0]

\* addPageToGraph with the scan of lines 77-86 cut to the head of the list
addPageToGraphHeadOnly(g, node) ==
    IF g = <<>>
    THEN [graph |-> <<node>>, rc |-> 0]
    ELSE IF g[1].name = node.name
         THEN [graph |-> g, rc |-> 1]
         ELSE [graph |-> Append(g, node), rc |-> 0]

\* addPageToGraph putting the new node in the place of the page of that name
addPageToGraphOverwrite(g, node) ==
    IF g = <<>>
    THEN [graph |-> <<node>>, rc |-> 0]
    ELSE IF \E i \in 1..Len(g) : g[i].name = node.name
         THEN [graph |-> [i \in 1..Len(g) |-> IF g[i].name = node.name THEN node ELSE g[i]],
               rc |-> 1]
         ELSE [graph |-> Append(g, node), rc |-> 0]

\* addPageToGraph: the new list and the return value
addPageToGraph(g, node) ==
    IF g = <<>>
    THEN [graph |-> <<node>>, rc |-> 0]
    ELSE IF \E i \in Pages(g) : g[i].name = node.name
         THEN [graph |-> g, rc |-> 1]
         ELSE [graph |-> Append(g, node), rc |-> 0]

\* the last page of the list with this name (the scans of addLinkToPage do not
\* stop at the first match), NULL when there is none
LastNamed(g, name) ==
    LET hits == {i \in Pages(g) : g[i].name = name}
    IN IF hits = {} THEN NULL ELSE CHOOSE i \in hits : \A j \in hits : j <= i

\* addLinkToPage with line 142 testing srcSeen alone
addLinkToPageSrcOnly(g, srcPage, link) ==
    LET src      == LastNamed(g, srcPage)
        linkNode == LastNamed(g, link)
    IN IF src = NULL
       THEN [graph |-> g, rc |-> 1]
       ELSE [graph |-> [g EXCEPT ![src].edges = Append(@, linkNode)], rc |-> 0]

\* addLinkToPage leaving out a link the source already has
addLinkToPageNoDup(g, srcPage, link) ==
    LET src      == LastNamed(g, srcPage)
        linkNode == LastNamed(g, link)
    IN IF src = NULL \/ linkNode = NULL
       THEN [graph |-> g, rc |-> 1]
       ELSE IF \E k \in 1..Len(g[src].edges) : g[src].edges[k] = linkNode
            THEN [graph |-> g, rc |-> 0]
            ELSE [graph |-> [g EXCEPT ![src].edges = Append(@, linkNode)], rc |-> 0]

\* addLinkToPage: the new list and the return value
addLinkToPage(g, srcPage, link) ==
    LET src      == LastNamed(g, srcPage)
        linkNode == LastNamed(g, link)
    IN IF src = NULL \/ linkNode = NULL
       THEN [graph |-> g, rc |-> 1]
       ELSE [graph |-> [g EXCEPT ![src].edges = Append(@, linkNode)], rc |-> 0]

\* findNode: the first page with this name, NULL when there is none
findNode(g, name) ==
    LET hits == {i \in Pages(g) : g[i].name = name}
    IN IF hits = {} THEN NULL ELSE CHOOSE i \in hits : \A j \in hits : i <= j

\* findPage: 0 when a page has this name, 1 otherwise
findPage(g, pageName) == IF \E i \in Pages(g) : g[i].name = pageName THEN 0 ELSE 1

\* resetVisits doing nothing
resetVisitsNone(g) == g

\* resetVisits stopping after the head of the list
resetVisitsHeadOnly(g) == [i \in 1..Len(g) |-> IF i = 1 THEN [g[i] EXCEPT !.visited = 0] ELSE g[i]]

\* resetVisits
resetVisits(g) == [i \in Pages(g) |-> [g[i] EXCEPT !.visited = 0]]

\* ---------------------------------------------------------------- dfs, one step at a time

\* Return with line 233 missing: a caller that gets 1 moves to its next link
ReturnDropsSuccess(g, stk, r) ==
    IF stk = <<>>
    THEN [graph |-> g, stack |-> <<>>, done |-> TRUE, res |-> r, marked |-> 0]
    ELSE [graph |-> g,
          stack |-> [stk EXCEPT ![Len(stk)].curLink = @ + 1],
          done |-> FALSE, res |-> 0, marked |-> 0]

\* a value r comes back to the caller on top of stk (lines 232-235): with no
\* caller it is the query's result; a caller that gets 1 returns 1 itself, and
\* so does every caller above it; a caller that gets 0 moves to its next link
Return(g, stk, r) ==
    IF stk = <<>> \/ r = 1
    THEN [graph |-> g, stack |-> <<>>, done |-> TRUE, res |-> r, marked |-> NULL]
    ELSE [graph |-> g,
          stack |-> [stk EXCEPT ![Len(stk)].curLink = @ + 1],
          done |-> FALSE, res |-> 0, marked |-> NULL]

\* line 228 missing
MarkVisitedNot(g, q) == g

\* line 228: fromPage->visited = 1
MarkVisited(g, q) == [g EXCEPT ![q].visited = 1]

\* dfs(q, to) from its first line to the head of its loop (lines 220-230),
\* called with the frames stk above it
DfsEnter(g, stk, q, to) ==
    IF g[q].name = g[to].name
    THEN Return(g, stk, 1)
    ELSE IF g[q].visited = 1
         THEN Return(g, stk, 0)
         ELSE [graph |-> MarkVisited(g, q),
               stack |-> Append(stk, [page |-> q, curLink |-> 1]),
               done |-> FALSE, res |-> 0, marked |-> q]

\* DfsLoop walking the links of the page from the last to the first
DfsLoopBackwards(g, stk, to) ==
    LET top == stk[Len(stk)]
        p   == top.page
        k   == top.curLink
    IN IF k > Len(g[p].edges)
       THEN Return(g, SubSeq(stk, 1, Len(stk) - 1), 0)
       ELSE DfsEnter(g, stk, g[p].edges[Len(g[p].edges) + 1 - k], to)

\* one turn of the loop of the innermost frame (lines 231-237)
DfsLoop(g, stk, to) ==
    LET top == stk[Len(stk)]
        p   == top.page
        k   == top.curLink
    IN IF k > Len(g[p].edges)
       THEN Return(g, SubSeq(stk, 1, Len(stk) - 1), 0)
       ELSE DfsEnter(g, stk, g[p].edges[k], to)

RECURSIVE DfsRun(_, _)
\* the turns of the loops until the outermost dfs has returned
DfsRun(r, to) == IF r.done THEN r ELSE DfsRun(DfsLoop(r.graph, r.stack, to), to)

\* dfs(fromPage, toPage) as printConnection calls it: the value returned and
\* the list with the visited flags the search left
dfs(g, fromPage, toPage) == DfsRun(DfsEnter(g, <<>>, fromPage, toPage), toPage)

\* printConnection: the line printed and the list after resetVisits
printConnection(g, pageOne, pageTwo) ==
    LET r == dfs(g, findNode(g, pageOne), findNode(g, pageTwo))
    IN [res |-> r.res, graph |-> resetVisits(r.graph)]

Bump(m, q) == IF q = NULL THEN m ELSE [m EXCEPT ![q] = @ + 1]

\* ---------------------------------------------------------------- main: one line

RECURSIVE AddPagesFromAbort(_, _, _, _, _)
\* the loop of lines 457-471 left at the first argument that fails
AddPagesFromAbort(g, e, calls, args, i) ==
    IF i > Len(args)
    THEN [graph |-> g, errSeen |-> e, calls |-> calls]
    ELSE LET r == [graph |-> IF \E k \in 1..Len(g) : g[k].name = args[i] THEN g
                             ELSE Append(g, [name |-> args[i], edges |-> <<>>, visited |-> 0]),
                   rc |-> IF \E k \in 1..Len(g) : g[k].name = args[i] THEN 1 ELSE 0]
         IN IF r.rc = 1
            THEN [graph |-> g, errSeen |-> e + 1, calls |-> Append(calls, 1)]
            ELSE AddPagesFromAbort(r.graph, e, Append(calls, 0), args, i + 1)

RECURSIVE AddPagesFrom(_, _, _, _, _)
\* lines 457-471: the loop over pageLinks from position i; calls collects what
\* addPageToGraph returned for each argument
AddPagesFrom(g, e, calls, args, i) ==
    IF i > Len(args)
    THEN [graph |-> g, errSeen |-> e, calls |-> calls]
    ELSE LET r == addPageToGraph(g, NewPage(args[i]))
         IN AddPagesFrom(r.graph, e + r.rc, Append(calls, r.rc), args, i + 1)

\* lines 456-471: the @addPages branch
AddPagesBranch(g, e, args) == AddPagesFrom(g, e, <<>>, args, 1)

RECURSIVE AddLinksFromAbort(_, _, _, _, _)
\* the loop of lines 483-486 left at the first destination that fails
AddLinksFromAbort(g, e, calls, args, i) ==
    IF i > Len(args)
    THEN [graph |-> g, errSeen |-> e, calls |-> calls]
    ELSE LET src == LastNamed(g, args[1])
             dst == LastNamed(g, args[i])
         IN IF src = NULL \/ dst = NULL
            THEN [graph |-> g, errSeen |-> e + 1, calls |-> Append(calls, 1)]
            ELSE AddLinksFromAbort([g EXCEPT ![src].edges = Append(@, dst)], e,
                                   Append(calls, 0), args, i + 1)

RECURSIVE AddLinksFrom(_, _, _, _, _)
\* lines 481-486: the loop over the destinations from position i; calls
\* collects what addLinkToPage returned for each destination
AddLinksFrom(g, e, calls, args, i) ==
    IF i > Len(args)
    THEN [graph |-> g, errSeen |-> e, calls |-> calls]
    ELSE LET r == addLinkToPage(g, args[1], args[i])
         IN AddLinksFrom(r.graph, e + r.rc, Append(calls, r.rc), args, i + 1)

\* lines 473-492: the @addLinks branch
AddLinksBranch(g, e, args) ==
    IF Len(args) >= 2
    THEN AddLinksFrom(g, e, <<>>, args, 2)
    ELSE IF Len(args) = 0
         THEN [graph |-> g, errSeen |-> 1, calls |-> <<>>]
         ELSE [graph |-> g, errSeen |-> e, calls |-> <<>>]

\* line 497 without its test of pageLinks[2]
WrongCountTooFew(args) == Len(args) < 2

\* line 497: the argument count of @isConnected is not two
WrongCount(args) == Len(args) # 2

\* lines 503-506: both names are names of pages
BothFound(g, args) == findPage(g, args[1]) = 0 /\ findPage(g, args[2]) = 0

\* lines 503-504: what the two calls of findPage return (no call on a wrong count)
FindCalls(g, args) ==
    IF WrongCount(args) THEN <<>> ELSE <<findPage(g, args[1]), findPage(g, args[2])>>

\* line 530: what main returns
ExitStatus(e) == IF e >= 1 THEN 1 ELSE 0

Idle == <<pc, nodeOne, nodeTwo, stack, res, marks>>

\* AddPagesLine giving up the line once an error has been recorded
AddPagesLineAfterError(args) ==
    /\ pc = "main"
    /\ LET r == IF errSeen >= 1
                THEN [graph |-> graphHead, errSeen |-> errSeen]
                ELSE AddPagesBranch(graphHead, errSeen, args)
       IN /\ r.errSeen <= MaxErr
          /\ graphHead' = r.graph
          /\ errSeen' = r.errSeen
    /\ UNCHANGED <<out, Idle>>

\* a line "@addPages ..."
AddPagesLine(args) ==
    /\ pc = "main"
    /\ LET r == AddPagesBranch(graphHead, errSeen, args)
       IN /\ r.errSeen <= MaxErr
          /\ graphHead' = r.graph
          /\ errSeen' = r.errSeen
    /\ UNCHANGED <<out, Idle>>

\* a line "@addLinks ..."
AddLinksLine(args) ==
    /\ pc = "main"
    /\ LET r == AddLinksBranch(graphHead, errSeen, args)
       IN /\ r.errSeen <= MaxErr
          /\ TotalEdges(r.graph) <= MaxEdges
          /\ graphHead' = r.graph
          /\ errSeen' = r.errSeen
    /\ UNCHANGED <<out, Idle>>

\* IsConnectedError printing 0 for the query it does not make
IsConnectedErrorPrints(args) ==
    /\ pc = "main"
    /\ errSeen + 1 <= MaxErr
    /\ IF Len(args) # 2 THEN TRUE
       ELSE \E i \in 1..2 : \A p \in 1..Len(graphHead) : graphHead[p].name # args[i]
    /\ errSeen' = errSeen + 1
    /\ out' = Append(out, 0)
    /\ UNCHANGED <<graphHead, Idle>>

\* a line "@isConnected ..." that does not reach printConnection (lines 497-508)
IsConnectedError(args) ==
    /\ pc = "main"
    /\ errSeen + 1 <= MaxErr
    /\ IF WrongCount(args) THEN TRUE ELSE ~BothFound(graphHead, args)
    /\ errSeen' = errSeen + 1
    /\ UNCHANGED <<graphHead, out, Idle>>

\* a line "@isConnected s t" that reaches printConnection (line 512), from
\* the call to the return of printConnection
IsConnectedQuery(args) ==
    /\ pc = "main"
    /\ ~WrongCount(args)
    /\ BothFound(graphHead, args)
    /\ Len(out) < MaxOut
    /\ LET r == printConnection(graphHead, args[1], args[2])
       IN /\ out' = Append(out, r.res)
          /\ graphHead' = r.graph
    /\ UNCHANGED <<errSeen, Idle>>

\* InvalidLine without the break of line 437 and with the words after the first
\* taken as the arguments of @addPages
InvalidLineApplies(word, args) ==
    /\ pc = "main"
    /\ word \notin Verbs
    /\ graphHead' = AddPagesBranch(graphHead, 1, args).graph
    /\ errSeen' = 1
    /\ UNCHANGED <<out, Idle>>

\* a line whose first word is none of the three verbs (lines 434-437)
InvalidLine(word, args) ==
    /\ pc = "main"
    /\ word \notin Verbs
    /\ errSeen' = 1
    /\ UNCHANGED <<graphHead, out, Idle>>

\* a line without any word: strtok finds none, action stays NULL (line 453)
BlankLine ==
    /\ pc = "main"
    /\ UNCHANGED <<graphHead, errSeen, out, Idle>>

\* ---------------------------------------------------------------- a query, step by step

\* the same line as IsConnectedLine, up to the head of the loop of the
\* outermost dfs (lines 512, 268-272, 220-230)
IsConnectedCall(args) ==
    /\ pc = "main"
    /\ ~WrongCount(args)
    /\ BothFound(graphHead, args)
    /\ Len(out) < MaxOut
    /\ LET one == findNode(graphHead, args[1])
           two == findNode(graphHead, args[2])
           r   == DfsEnter(graphHead, <<>>, one, two)
       IN /\ nodeOne' = one
          /\ nodeTwo' = two
          /\ graphHead' = r.graph
          /\ stack' = r.stack
          /\ res' = r.res
          /\ marks' = Bump([i \in Pages(graphHead) |-> 0], r.marked)
          /\ pc' = IF r.done THEN "print" ELSE "dfs"
    /\ UNCHANGED <<errSeen, out>>

\* dfs goes on: the innermost frame tries its next link or returns
DfsStep ==
    /\ pc = "dfs"
    /\ LET r == DfsLoop(graphHead, stack, nodeTwo)
       IN /\ graphHead' = r.graph
          /\ stack' = r.stack
          /\ res' = r.res
          /\ marks' = Bump(marks, r.marked)
          /\ pc' = IF r.done THEN "print" ELSE "dfs"
    /\ UNCHANGED <<errSeen, out, nodeOne, nodeTwo>>

\* lines 272-273: printf of the result, then resetVisits
PrintConnection ==
    /\ pc = "print"
    /\ out' = Append(out, res)
    /\ graphHead' = resetVisits(graphHead)
    /\ pc' = "main"
    /\ nodeOne' = NULL
    /\ nodeTwo' = NULL
    /\ stack' = <<>>
    /\ res' = 0
    /\ marks' = <<>>
    /\ UNCHANGED errSeen

\* ---------------------------------------------------------------- history

\* the line just handled: its first word, its arguments, and what its calls of
\* addPageToGraph, addLinkToPage or findPage returned, in order
Log(word, args, calls) == last' = [word |-> word, args |-> args, calls |-> calls]

\* a query to remember: the names asked and the line printed
Answered == {[from |-> graphHead[nodeOne].name, to |-> graphHead[nodeTwo].name, res |-> res]}

\* a remembered query stays as long as the list does not change
Keep == memo' = IF graphHead' = graphHead THEN memo ELSE {}

\* ---------------------------------------------------------------- specifications

Init ==
    /\ graphHead = <<>>
    /\ errSeen = 0
    /\ out = <<>>
    /\ pc = "main"
    /\ nodeOne = NULL
    /\ nodeTwo = NULL
    /\ stack = <<>>
    /\ res = 0
    /\ marks = <<>>
    /\ memo = {}
    /\ last = NoLine
    /\ line = <<>>

\* main's loop, one line per step
Next ==
    \/ \E args \in LineArgLists :
          /\ AddPagesLine(args)
          /\ Log("@addPages", args, AddPagesBranch(graphHead, errSeen, args).calls)
          /\ UNCHANGED <<memo, line>>
    \/ \E args \in LineArgLists :
          /\ AddLinksLine(args)
          /\ Log("@addLinks", args, AddLinksBranch(graphHead, errSeen, args).calls)
          /\ UNCHANGED <<memo, line>>
    \/ \E args \in LineArgLists :
          /\ IsConnectedError(args)
          /\ Log("@isConnected", args, FindCalls(graphHead, args))
          /\ UNCHANGED <<memo, line>>
    \/ \E args \in LineArgLists :
          /\ IsConnectedQuery(args)
          /\ Log("@isConnected", args, FindCalls(graphHead, args))
          /\ UNCHANGED <<memo, line>>
    \/ \E word \in FirstWords \ Verbs, args \in IgnoredArgLists :
          /\ InvalidLine(word, args)
          /\ Log(word, args, <<>>)
          /\ UNCHANGED <<memo, line>>
    \/ BlankLine /\ Log("", <<>>, <<>>) /\ UNCHANGED <<memo, line>>

Spec == Init /\ [][Next]_vars

\* a step of dfs, and the return of printConnection, with the history
DfsStepH == DfsStep /\ UNCHANGED hist
PrintConnectionH == PrintConnection /\ memo' \in {memo, Answered} /\ UNCHANGED <<last, line>>

\* main's loop with the query taken step by step
NextDfs ==
    \/ \E args \in ArgLists : AddPagesLine(args) /\ Keep /\ UNCHANGED <<last, line>>
    \/ \E args \in ArgLists : AddLinksLine(args) /\ Keep /\ UNCHANGED <<last, line>>
    \/ \E args \in ArgLists : IsConnectedError(args) /\ UNCHANGED hist
    \/ \E args \in ArgLists : IsConnectedCall(args) /\ UNCHANGED hist
    \/ \E word \in FirstWords \ Verbs, args \in IgnoredArgLists :
          InvalidLine(word, args) /\ UNCHANGED hist
    \/ BlankLine /\ UNCHANGED hist
    \/ DfsStepH
    \/ PrintConnectionH

SpecDfs == Init /\ [][NextDfs]_vars

\* a C program that is inside a call goes on with it
FairDfs == SpecDfs /\ WF_vars(DfsStepH) /\ WF_vars(PrintConnectionH)

\* ---------------------------------------------------------------- main: the words of a line

\* the characters of a line after its verb: a letter, a space, a tab
Chars == {"a", " ", "\t"}

\* a line as getline returns it: the verb (one symbol for its run of letters),
\* a space, up to MaxLine characters, the line terminator
Texts(verb) ==
    {<<verb, " ">> \o body \o <<"\n">> : body \in UNION {[1..n -> Chars] : n \in 0..MaxLine}}

\* line 310: isspace
isspace(c) == c \in {" ", "\t", "\n"}

\* removeAllWhitespace: the characters of str that are no whitespace, in order
removeAllWhitespace(str) == SelectSeq(str, LAMBDA c : ~isspace(c))

RECURSIVE SkipDelims(_, _, _)
\* strtok: the first position from i on that holds no delimiter
SkipDelims(s, i, delim) ==
    IF i <= Len(s) /\ s[i] \in delim THEN SkipDelims(s, i + 1, delim) ELSE i

RECURSIVE TokenEnd(_, _, _)
\* strtok: the first position from i on that holds a delimiter, or the end
TokenEnd(s, i, delim) ==
    IF i <= Len(s) /\ s[i] \notin delim THEN TokenEnd(s, i + 1, delim) ELSE i

\* strtok on s from position i: whether there is a word, the word, and the
\* position the next call starts at
strtok(s, i, delim) ==
    LET b == SkipDelims(s, i, delim)
        e == TokenEnd(s, b, delim)
    IN [found |-> b <= Len(s),
        word  |-> SubSeq(s, b, e - 1),
        next  |-> IF e > Len(s) THEN e ELSE e + 1]

\* lines 415-419: a line terminator at the end of the word is cut, then
\* removeAllWhitespace
CleanWord(word) ==
    removeAllWhitespace(IF word[Len(word)] = "\n" THEN SubSeq(word, 1, Len(word) - 1) ELSE word)

RECURSIVE WordsFrom(_, _)
\* lines 413-451 after the verb: the words strtok(NULL, " ") finds from
\* position i, each one cleaned and stored in pageLinks
WordsFrom(s, i) ==
    LET t == strtok(s, i, {" "})
    IN IF t.found THEN <<CleanWord(t.word)>> \o WordsFrom(s, t.next) ELSE <<>>

\* lines 405-451: action and pageLinks of a line ("" when the line has no
\* word, "invalid" when its first word is no verb)
Tokenize(text) ==
    LET t == strtok(text, 1, {" ", "\t", "\n"})
    IN IF ~t.found
       THEN [action |-> "", pageLinks |-> <<>>]
       ELSE LET word == CleanWord(t.word)
            IN IF Len(word) = 1 /\ word[1] \in Verbs
               THEN [action |-> word[1], pageLinks |-> WordsFrom(text, t.next)]
               ELSE [action |-> "invalid", pageLinks |-> <<>>]

\* the lines of the input, each with what lines 405-451 make of it
Lines ==
    {[text |-> text, tok |-> Tokenize(text)] :
        text \in Texts("@addPages") \cup Texts("@isConnected")}

\* main's loop on lines given as characters: @addPages and @isConnected lines
NextTok ==
    \/ \E l \in Lines :
          /\ l.tok.action = "@addPages"
          /\ AddPagesLine(l.tok.pageLinks)
          /\ Log(l.tok.action, l.tok.pageLinks,
                 AddPagesBranch(graphHead, errSeen, l.tok.pageLinks).calls)
          /\ line' = l.text
          /\ UNCHANGED memo
    \/ \E l \in Lines :
          /\ l.tok.action = "@isConnected"
          /\ IsConnectedError(l.tok.pageLinks)
          /\ Log(l.tok.action, l.tok.pageLinks, FindCalls(graphHead, l.tok.pageLinks))
          /\ line' = l.text
          /\ UNCHANGED memo
    \/ \E l \in Lines :
          /\ l.tok.action = "@isConnected"
          /\ IsConnectedQuery(l.tok.pageLinks)
          /\ Log(l.tok.action, l.tok.pageLinks, FindCalls(graphHead, l.tok.pageLinks))
          /\ line' = l.text
          /\ UNCHANGED memo

SpecTok == Init /\ [][NextTok]_vars

\* ---------------------------------------------------------------- claims on the lines (Spec)

\* the positions of the arguments of an @addPages line whose name is in the
\* store when the loop reaches them: in the store before the line, or created
\* by an earlier argument of the line
DupPositions(g, args) ==
    {i \in 1..Len(args) :
        \/ args[i] \in NameSet(g)
        \/ \E j \in 1..(i - 1) : args[j] = args[i]}

\* the pages an @addPages line has to create, in the order of the arguments
RECURSIVE Created(_, _, _)
Created(g, args, i) ==
    IF i > Len(args) THEN <<>>
    ELSE IF i \in DupPositions(g, args) THEN Created(g, args, i + 1)
         ELSE <<[name |-> args[i], edges |-> <<>>, visited |-> 0]>> \o Created(g, args, i + 1)

\* the positions of the destinations of an @addLinks line for which the
\* source or the destination names no page
MissingPositions(g, args) ==
    {i \in 2..Len(args) : args[1] \notin NameSet(g) \/ args[i] \notin NameSet(g)}

\* C3: no two pages of the list have the same name.
C3_UniqueNames ==
    \A i, j \in Pages(graphHead) : graphHead[i].name = graphHead[j].name => i = j

\* the last line named one name twice: created the first time, refused the second
C3_Witness ==
    /\ last.word = "@addPages"
    /\ \E i, j \in 1..Len(last.args) :
          /\ i < j
          /\ last.args[i] = last.args[j]
          /\ last.calls[i] = 0
          /\ last.calls[j] = 1
    /\ Len(graphHead) = 2

\* C4: an @addPages argument whose name is in the store records one error and
\* leaves the store as it is: the pages that were in the list stay at their
\* places with their edges, and no page is added for that argument.
C4_DuplicateLeavesStore ==
    [][last'.word = "@addPages" =>
         LET dups == DupPositions(graphHead, last'.args)
         IN /\ errSeen' = errSeen + Cardinality(dups)
            /\ Len(graphHead') = Len(graphHead) + Len(last'.args) - Cardinality(dups)
            /\ \A i \in Pages(graphHead) : graphHead'[i] = graphHead[i]
            /\ (Cardinality(dups) = Len(last'.args) => graphHead' = graphHead)]_vars

\* the last line named a page that was in the store and has edges
C4_Witness ==
    /\ last.word = "@addPages"
    /\ \E i \in 1..Len(last.args) :
          /\ last.calls[i] = 1
          /\ \A j \in 1..Len(last.args) : last.calls[j] = 1
          /\ \E p \in Pages(graphHead) :
                graphHead[p].name = last.args[i] /\ graphHead[p].edges # <<>>
    /\ errSeen >= 1

\* every edge points to a page of the list
EdgesInStore ==
    \A p \in Pages(graphHead) :
        \A k \in 1..Len(graphHead[p].edges) : graphHead[p].edges[k] \in Pages(graphHead)

\* C5: a destination of an @addLinks line for which the source or the
\* destination names no page records one error and adds no edge; every edge of
\* the store joins two pages of the list.
C5_MissingPageNoEdge ==
    /\ []EdgesInStore
    /\ [][last'.word = "@addLinks" /\ Len(last'.args) >= 2 =>
            LET miss == MissingPositions(graphHead, last'.args)
            IN /\ errSeen' = errSeen + Cardinality(miss)
               /\ TotalEdges(graphHead') =
                     TotalEdges(graphHead) + (Len(last'.args) - 1) - Cardinality(miss)
               /\ (Cardinality(miss) = Len(last'.args) - 1 => graphHead' = graphHead)]_vars

\* the last line linked from a page of the list to a name that is no page
C5_Witness ==
    /\ last.word = "@addLinks"
    /\ Len(last.args) >= 2
    /\ last.args[1] \in NameSet(graphHead)
    /\ \E i \in 2..Len(last.args) : last.args[i] \notin NameSet(graphHead)
    /\ errSeen >= 1

\* C8: an @addLinks line with no argument, or with a source and no
\* destination, records an error (the result is non-zero) and creates no edge.
C8_AddLinksUsage ==
    [][last'.word = "@addLinks" /\ Len(last'.args) <= 1 =>
          errSeen' >= 1 /\ graphHead' = graphHead]_vars

\* C9: an @isConnected line searches only with exactly two arguments that both
\* name pages; any other line records one error, prints nothing and leaves
\* the list with its visited flags as it is.
C9_QueryOnlyWhenValid ==
    [][last'.word = "@isConnected" =>
          IF /\ Len(last'.args) = 2
             /\ \A i \in 1..2 : last'.args[i] \in NameSet(graphHead)
          THEN Len(out') = Len(out) + 1 /\ errSeen' = errSeen
          ELSE errSeen' = errSeen + 1 /\ out' = out /\ graphHead' = graphHead]_vars

\* the last line was @isConnected with three names of pages
C9_Witness ==
    /\ last.word = "@isConnected"
    /\ Len(last.args) = 3
    /\ \A i \in 1..3 : last.args[i] \in NameSet(graphHead)
    /\ errSeen >= 1
    /\ out = <<>>

\* C10: an @addPages line handles every argument, in order: each argument
\* whose name is in the store records one error, and each other argument is
\* appended to the list as a page with no edges and visited flag 0.
C10_EveryArgumentHandled ==
    [][last'.word = "@addPages" =>
          /\ graphHead' = graphHead \o Created(graphHead, last'.args, 1)
          /\ errSeen' = errSeen + Cardinality(DupPositions(graphHead, last'.args))]_vars

\* the last line created a page, was refused the next, and created a third
C10_Witness ==
    /\ last.word = "@addPages"
    /\ \E i, j, k \in 1..Len(last.args) :
          /\ i < j /\ j < k
          /\ last.calls[i] = 0 /\ last.calls[j] = 1 /\ last.calls[k] = 0
    /\ errSeen >= 1

\* the kinds of error a line can produce on the list g: a name of an @addPages
\* line that is in the store (DuplicateName), a name of an @addLinks or
\* @isConnected line that is no page (NotFound), a wrong number of arguments
\* or a first word that is no verb (UsageError)
DuplicateName(g, l) == l.word = "@addPages" /\ DupPositions(g, l.args) # {}

NotFound(g, l) ==
    \/ l.word = "@addLinks" /\ MissingPositions(g, l.args) # {}
    \/ l.word = "@isConnected" /\ Len(l.args) = 2
           /\ \E i \in 1..2 : l.args[i] \notin NameSet(g)

UsageError(l) ==
    \/ l.word = "@addLinks" /\ Len(l.args) <= 1
    \/ l.word = "@isConnected" /\ Len(l.args) # 2
    \/ l.word \notin Verbs /\ l.word # ""

ErrorLine(g, l) == DuplicateName(g, l) \/ NotFound(g, l) \/ UsageError(l)

\* C11: the result is non-zero exactly when some line produced a DuplicateName,
\* a NotFound or a UsageError: it is zero before the first line, a line that
\* produces an error makes it non-zero, a line that produces none leaves it as
\* it was, and no line makes it zero again.
C11_ResultIffError ==
    /\ ExitStatus(errSeen) = 0
    /\ [][ExitStatus(errSeen') # 0 <=>
             (ExitStatus(errSeen) # 0 \/ ErrorLine(graphHead, last'))]_vars

\* C12: a line whose first word is none of the three verbs records an error
\* and changes neither the pages, nor the edges, nor the output, whatever
\* words follow the first.
C12_UnknownVerbNoEffect ==
    [][last'.word \notin Verbs /\ last'.word # "" =>
          /\ ExitStatus(errSeen') # 0
          /\ graphHead' = graphHead
          /\ out' = out]_vars

\* the last line was an unknown word followed by a name that is no page
C12_Witness ==
    /\ last.word \notin Verbs
    /\ Len(last.args) = 1
    /\ last.args[1] \notin NameSet(graphHead)
    /\ graphHead # <<>>
    /\ ExitStatus(errSeen) = 1

\* C13: a line without any word (empty, or spaces and tabs only) records an
\* error, so that the result is non-zero.
C13_BlankLineIsError ==
    [][last'.word = "" => ExitStatus(errSeen') # 0]_vars

\* an @isConnected line with exactly two arguments that both name pages of g
ValidQuery(g, l) ==
    /\ l.word = "@isConnected"
    /\ Len(l.args) = 2
    /\ \A i \in 1..2 : l.args[i] \in NameSet(g)

\* C14: every @isConnected line with exactly two arguments that both name
\* pages appends one line, 1 or 0, to the output, and no other line of the
\* input appends or changes anything: the output holds one line per such
\* query, in the order of the input.
C14_OneLinePerQuery ==
    [][IF ValidQuery(graphHead, last')
       THEN \E b \in {0, 1} : out' = Append(out, b)
       ELSE out' = out]_vars

\* two queries have printed 1 and then 0, with errors recorded in between or
\* before, and the last line was a construction line that failed
C14_Witness ==
    /\ out = <<1, 0>>
    /\ ExitStatus(errSeen) = 1
    /\ last.word \in {"@addPages", "@addLinks"}
    /\ \E i \in 1..Len(last.calls) : last.calls[i] = 1

\* ---------------------------------------------------------------- claims on the queries (SpecDfs)

\* the pages one edge away from a page of S, and S
Step(g, S) == S \cup UNION {{g[p].edges[k] : k \in 1..Len(g[p].edges)} : p \in S}

RECURSIVE Closure(_, _, _)
Closure(g, S, n) == IF n = 0 THEN S ELSE Closure(g, Step(g, S), n - 1)

\* a directed path of zero or more edges leads from page s to page t
Reachable(g, s, t) == t \in Closure(g, {s}, Len(g))

PageNamed(g, name) == CHOOSE i \in Pages(g) : g[i].name = name

\* C1: @isConnected s t prints 1 exactly when a directed path of zero or more
\* edges leads from s to t, and 0 otherwise.
C1_PrintsReachability ==
    [][pc = "print" =>
          out' = Append(out, IF Reachable(graphHead, nodeOne, nodeTwo) THEN 1 ELSE 0)]_vars

\* a query from a page without edges to itself has printed 1
C1_Witness ==
    /\ pc = "main"
    /\ out # <<>>
    /\ \E q \in memo :
          /\ q.from = q.to
          /\ q.res = 1
          /\ graphHead[PageNamed(graphHead, q.from)].edges = <<>>

\* C2: between two lines, so before and after every query, the visited flag of
\* every page is 0.
C2_UnvisitedBetweenLines ==
    pc = "main" => \A i \in Pages(graphHead) : graphHead[i].visited = 0

\* a query between two different pages has printed 1: dfs returned with the
\* flag of its first page set
C2_Witness ==
    /\ pc = "main"
    /\ out # <<>>
    /\ \E q \in memo : q.from # q.to /\ q.res = 1

\* C6: a query comes to its end, and marks no page more than once.
C6_QueryTerminates ==
    /\ [](\A i \in DOMAIN marks : marks[i] <= 1)
    /\ (pc # "main") ~> (pc = "main")

\* dfs has returned 0 after following a cycle: two marked pages with an edge
\* each way (one page with an edge to itself counts)
C6_Witness ==
    /\ pc = "print"
    /\ res = 0
    /\ \E p, q \in Pages(graphHead) :
          /\ graphHead[p].visited = 1
          /\ graphHead[q].visited = 1
          /\ \E k \in 1..Len(graphHead[p].edges) : graphHead[p].edges[k] = q
          /\ \E k \in 1..Len(graphHead[q].edges) : graphHead[q].edges[k] = p

\* the names and the edges of the list, without the visited flags
Structure(g) == [i \in Pages(g) |-> [name |-> g[i].name, edges |-> g[i].edges]]

C15_LinkAppendsOneEdge ==
    [][/\ last'.word = "@addLinks"
       /\ Len(last'.args) = 2
       /\ \A i \in 1..2 : last'.args[i] \in NameSet(graphHead)
       => LET s == PageNamed(graphHead, last'.args[1])
              d == PageNamed(graphHead, last'.args[2])
          IN /\ last'.calls = <<0>>
             /\ errSeen' = errSeen
             /\ Len(graphHead') = Len(graphHead)
             /\ graphHead'[s] = [graphHead[s] EXCEPT !.edges = graphHead[s].edges \o <<d>>]
             /\ \A p \in Pages(graphHead) \ {s} : graphHead'[p] = graphHead[p]]_vars

\* the last line linked a page to itself a second time
C15_Witness ==
    /\ last.word = "@addLinks"
    /\ Len(last.args) = 2
    /\ last.args[1] = last.args[2]
    /\ last.calls = <<0>>
    /\ \E p \in Pages(graphHead) :
          /\ graphHead[p].name = last.args[1]
          /\ graphHead[p].edges = <<p, p>>
    /\ Len(graphHead) = 2

\* the destinations of an @addLinks line that name pages of g, as pages, in
\* the order of the arguments from position i
RECURSIVE Linked(_, _, _)
Linked(g, args, i) ==
    IF i > Len(args) THEN <<>>
    ELSE IF args[i] \in NameSet(g)
         THEN <<PageNamed(g, args[i])>> \o Linked(g, args, i + 1)
         ELSE Linked(g, args, i + 1)

\* what a line does to the list g, told without the error counter
LineGraph(g, l) ==
    IF l.word = "@addPages"
    THEN g \o Created(g, l.args, 1)
    ELSE IF l.word = "@addLinks" /\ Len(l.args) >= 2 /\ l.args[1] \in NameSet(g)
         THEN [g EXCEPT ![PageNamed(g, l.args[1])].edges = @ \o Linked(g, l.args, 2)]
         ELSE g

\* what a line adds to the output on the list g, told without the error counter
LineOut(g, l) ==
    IF ValidQuery(g, l)
    THEN <<IF Reachable(g, PageNamed(g, l.args[1]), PageNamed(g, l.args[2])) THEN 1 ELSE 0>>
    ELSE <<>>

\* C16: every line is handled, after lines with errors as after lines without:
\* what a line does to the list and to the output depends on the list and on
\* the line alone, never on the errors recorded before it.
C16_ErrorsDoNotChangeLaterLines ==
    [][/\ graphHead' = LineGraph(graphHead, last')
       /\ out' = out \o LineOut(graphHead, last')]_vars

\* after a line with an error, an @addPages line has created a page
C16_Witness ==
    /\ ExitStatus(errSeen) = 1
    /\ last.word = "@addPages"
    /\ last.calls = <<0>>
    /\ Len(graphHead) = 2
    /\ graphHead[Len(graphHead)].name = last.args[1]

\* ---------------------------------------------------------------- claims on the words of a line (SpecTok)

RECURSIVE RunsFrom(_, _)
\* the maximal runs of characters of s from position i that are no whitespace
RunsFrom(s, i) ==
    LET b == SkipDelims(s, i, {" ", "\t", "\n"})
        e == TokenEnd(s, b, {" ", "\t", "\n"})
    IN IF b > Len(s) THEN <<>> ELSE <<SubSeq(s, b, e - 1)>> \o RunsFrom(s, e)

\* C17: the arguments of a line are the maximal runs of characters that are
\* no whitespace and follow the verb: a space or a tab between two names makes
\* two arguments, whitespace before the end of the line makes none, and no
\* page has the empty name.
C17_ArgumentsAreRuns ==
    /\ [](\A p \in Pages(graphHead) : graphHead[p].name # <<>>)
    /\ [][line' # <<>> => last'.args = Tail(RunsFrom(line', 1))]_vars

\* ---------------------------------------------------------------- more claims on the queries (SpecDfs)

RECURSIVE Search(_, _, _, _)
RECURSIVE SearchEdges(_, _, _, _, _)
\* a search from page p for page t that has expanded the pages of seen: it
\* finds t at once if p has its name, gives up on a page of seen, and else
\* tries the edges of p from the first
Search(g, p, t, seen) ==
    IF g[p].name = g[t].name THEN [found |-> TRUE, seen |-> seen]
    ELSE IF p \in seen THEN [found |-> FALSE, seen |-> seen]
         ELSE SearchEdges(g, p, t, seen \cup {p}, 1)

\* the edges of p from the k-th on, in the order they were added: the first
\* edge whose search succeeds ends it, and no later edge is searched
SearchEdges(g, p, t, seen, k) ==
    IF k > Len(g[p].edges) THEN [found |-> FALSE, seen |-> seen]
    ELSE LET r == Search(g, g[p].edges[k], t, seen)
         IN IF r.found THEN r ELSE SearchEdges(g, p, t, r.seen, k + 1)

\* C18: dfs tries the edges of a page in the order they were added and
\* returns success at the first edge whose search succeeds, without a call on
\* any later edge: when dfs has returned, the pages it marked are the pages
\* such a search expands, and its value is that search's.
C18_EdgesInOrderFirstSuccess ==
    pc = "print" =>
        LET r == Search(graphHead, nodeOne, nodeTwo, {})
        IN /\ res = (IF r.found THEN 1 ELSE 0)
           /\ {p \in Pages(graphHead) : graphHead[p].visited = 1} = r.seen

\* dfs has returned 1 from the first edge of a page whose second edge leads
\* to a third page, which is not marked
C18_Witness ==
    /\ pc = "print"
    /\ res = 1
    /\ Len(graphHead[nodeOne].edges) = 2
    /\ graphHead[nodeOne].edges[1] = nodeTwo
    /\ graphHead[nodeOne].edges[2] \notin {nodeOne, nodeTwo}
    /\ graphHead[graphHead[nodeOne].edges[2]].visited = 0

\* ---------------------------------------------------------------- more claims on the lines (Spec), continued

\* C19: on an @addLinks line whose source is a page, every destination that
\* is no page records one error and adds no edge, and every destination that
\* is a page, before or after such a one, adds one edge at the end of the
\* edges of the source, in the order of the arguments.
C19_EachDestinationOnItsOwn ==
    [][/\ last'.word = "@addLinks"
       /\ Len(last'.args) >= 2
       /\ last'.args[1] \in NameSet(graphHead)
       => LET args == last'.args
              s    == PageNamed(graphHead, args[1])
              miss == {i \in 2..Len(args) : args[i] \notin NameSet(graphHead)}
          IN /\ graphHead' = [graphHead EXCEPT ![s].edges = @ \o Linked(graphHead, args, 2)]
             /\ errSeen' = errSeen + Cardinality(miss)
             /\ \A i \in 2..Len(args) : last'.calls[i - 1] = (IF i \in miss THEN 1 ELSE 0)]_vars

\* the last line named a destination that is no page and then one that is,
\* which is now the last edge of the source
C19_Witness ==
    /\ last.word = "@addLinks"
    /\ last.calls = <<1, 0>>
    /\ last.args[2] \notin NameSet(graphHead)
    /\ \E p \in Pages(graphHead) :
          /\ graphHead[p].name = last.args[1]
          /\ graphHead[p].edges # <<>>
          /\ graphHead[graphHead[p].edges[Len(graphHead[p].edges)]].name = last.args[3]
    /\ ExitStatus(errSeen) = 1

\* a line for which main or one of its calls writes a diagnostic: a call
\* returned 1, the count of @isConnected is not two, the first word is no
\* verb, or @addLinks has no argument
Reported(l) ==
    \/ \E i \in 1..Len(l.calls) : l.calls[i] = 1
    \/ l.word = "@isConnected" /\ Len(l.args) # 2
    \/ l.word = "@addLinks" /\ Len(l.args) = 0
    \/ l.word \notin Verbs /\ l.word # ""

\* C20: the error counter never decreases, and a line that produces an error
\* leaves it greater than it was before the line.
C20_CounterGrows ==
    [][/\ errSeen' >= errSeen
       /\ (Reported(last') => errSeen' > errSeen)]_vars

====
